---- MODULE Spec2Model ----
(***************************************************************************)
(* Model of the Instagram publish workflow of Google-adk-backend.          *)
(*                                                                         *)
(* The repository holds two implementations of instagram_post_run:        *)
(*   "poster"    src/agents/instagram_poster.py  (caption default, poll)   *)
(*   "generator" src/agents/image_generator.py   (resize, cleanup)         *)
(* One behaviour of the model is one invocation of one of them, split at   *)
(* the external calls (upload, HTTP requests, sleep, file operations).     *)
(* Every external call may return any of a small set of JSON bodies or     *)
(* raise.  Text (paths, captions) is a sequence of one-character strings   *)
(* so that str.replace and str.strip are computed, not assumed.            *)
(*                                                                         *)
(* print writes to sys.stdout, which is the same stream for the whole      *)
(* invocation: one that takes any text, one whose encoding has no emoji    *)
(* (ascii, cp1252), or a closed one.  The first print of each try block    *)
(* (instagram_poster.py line 35, image_generator.py line 81) and the print *)
(* of each except branch (lines 95 and 145) are modelled; the prints that  *)
(* follow the first write text of the same kind to the stream that took    *)
(* it.  traceback.print_exc() (instagram_poster.py line 97) writes to      *)
(* sys.stderr, which is open or closed; its default error handler          *)
(* (backslashreplace) encodes any text.  An exception that leaves          *)
(* instagram_post_run is pc = "raised".                                    *)
(*                                                                         *)
(* firebase_config.py (initialize_firebase) is a separate state machine    *)
(* over the fb_ variables, with its own specification FirebaseSpec.        *)
(***************************************************************************)
EXTENDS Integers, Sequences, FiniteSets, TLC

VARIABLES
  impl,                 \* which module's instagram_post_run is invoked
  env,                  \* names of the environment variables that are set
  stdout,               \* what sys.stdout is: "utf-8", "ascii" or "closed"
  stderr,               \* what sys.stderr is: "open" or "closed"
  image_path,           \* argument image_path
  caption_given,        \* whether the caller passed a caption argument
  caption_arg,          \* the caption argument as passed (if one was passed)
  caption,              \* parameter/local caption (after defaulting)
  disk,                 \* file system: existing path -> "original" | "derived"
  pc,                   \* position in the function body
  img_size,             \* locals width, height of resize_for_instagram
  crop_box,             \* locals left, top, right, bottom of resize_for_instagram
  resize_error,         \* the exception resize_for_instagram caught, if any
  resized_image_path,   \* local of the generator
  upload_result,        \* local upload_result
  image_url,            \* local image_url
  upload_data,          \* local upload_data (container-creation response)
  container_id,         \* local container_id
  status,               \* local status of the poll loop
  attempt,              \* number of iterations of the poll loop entered
  publish_data,         \* local publish_data
  calls,                \* log of the external calls issued, in order
  result,               \* the returned dict, NoResult until the return
  fb_apps,              \* firebase_admin._apps: number of registered apps
  fb_files,             \* which service-account key paths exist
  fb_valid,             \* which of them credentials.Certificate accepts
  fb_bucket,            \* whether FIREBASE_STORAGE_BUCKET is set
  fb_cred,              \* the key path the registered app was built from
  fb_last,              \* the last initialize_firebase call: what it saw, how it ended
  fb_calls              \* number of initialize_firebase calls made

\* the state of one instagram_post_run invocation
wfvars == <<impl, env, stdout, stderr, image_path, caption_given, caption_arg, caption, disk, pc,
            img_size, crop_box, resize_error,
            resized_image_path, upload_result, image_url, upload_data,
            container_id, status, attempt, publish_data, calls, result>>

\* the state of firebase_config.py
fbvars == <<fb_apps, fb_files, fb_valid, fb_bucket, fb_cred, fb_last, fb_calls>>

vars == <<wfvars, fbvars>>

-----------------------------------------------------------------------------
(* Python values *)

\* Python's None
None == "<None>"

\* the empty dict {} (and the empty str, as a character sequence)
EmptyDict == << >>

\* no dict has been returned yet
NoResult == [pending |-> TRUE]

\* a local that has not been assigned yet
Unbound == [unbound |-> TRUE]

\* d.get(k, default)
Get(d, k, default) == IF k \in DOMAIN d THEN d[k] ELSE default

\* str(d) of a response body, kept symbolic
Str(d) == <<"str", d>>

\* truthiness of a str-or-None value: `not v`
Falsy(v) == v = None \/ v = ""

-----------------------------------------------------------------------------
(* Text as character sequences *)

\* A character is a one-character string; a character that has no escape
\* in a TLA+ string is written as its code point, "U+00A0".

\* the characters str.strip() removes: those with str.isspace() true
Whitespace ==
  { "\t", "\n", "U+000B", "\f", "\r",
    "U+001C", "U+001D", "U+001E", "U+001F",
    " ", "U+0085", "U+00A0", "U+1680",
    "U+2000", "U+2001", "U+2002", "U+2003", "U+2004", "U+2005",
    "U+2006", "U+2007", "U+2008", "U+2009", "U+200A",
    "U+2028", "U+2029", "U+202F", "U+205F", "U+3000" }

RECURSIVE LStrip(_)
LStrip(s) == IF s # << >> /\ Head(s) \in Whitespace THEN LStrip(Tail(s)) ELSE s

RECURSIVE RStrip(_)
RStrip(s) ==
  IF s # << >> /\ s[Len(s)] \in Whitespace
    THEN RStrip(SubSeq(s, 1, Len(s) - 1))
    ELSE s

\* str.strip()
Strip(s) == RStrip(LStrip(s))

\* s.startswith(old)
StartsWith(s, old) == Len(s) >= Len(old) /\ SubSeq(s, 1, Len(old)) = old

\* str.replace(old, new) for a non-empty old: leftmost, non-overlapping
RECURSIVE Replace(_, _, _)
Replace(s, old, new) ==
  IF s = << >> THEN << >>
  ELSE IF StartsWith(s, old)
    THEN new \o Replace(SubSeq(s, Len(old) + 1, Len(s)), old, new)
    ELSE <<Head(s)>> \o Replace(Tail(s), old, new)

DotPng == <<".", "p", "n", "g">>
DotJpg == <<".", "j", "p", "g">>
InstagramTag == <<"_", "i", "n", "s", "t", "a", "g", "r", "a", "m">>

\* image_generator.py line 49
ResizedPath(p) ==
  Replace(Replace(p, DotPng, InstagramTag \o DotPng), DotJpg, InstagramTag \o DotJpg)

-----------------------------------------------------------------------------
(* Inputs *)

EnvVars == {"CLOUD_NAME", "API_KEY", "API_SECRET",
            "INSTAGRAM_ACCESS_TOKEN", "INSTAGRAM_BUSINESS_ACCOUNT_ID"}

CloudVars == {"CLOUD_NAME", "API_KEY", "API_SECRET"}

Paths == { << >>,
           <<"a">> \o DotPng,
           <<"b">> \o DotJpg,
           <<"c", ".", "j", "p", "e", "g">>,
           <<"d", ".", "P", "N", "G">> }

\* default of the caption parameter, instagram_poster.py line 18
PosterDefaultCaption == <<"Check out this beautiful handmade creation!">>

\* default of the caption parameter, image_generator.py line 59
GeneratorDefaultCaption == << >>

\* replacement for a blank caption, instagram_poster.py line 32
BlankCaptionReplacement ==
  PosterDefaultCaption \o <<" ", "#handmade #artisan #craft">>

Captions == { << >>, <<" ">>, <<" ", "\n">>, <<"\r">>, <<"U+00A0", "\f">>,
              <<"h", "i">>, <<" ", "h", "i", " ">>, <<"\r", "h", "i", "U+2003">> }

\* what sys.stdout may be during the invocation
Stdouts == {"utf-8", "ascii", "closed"}

\* what sys.stderr may be during the invocation
Stderrs == {"open", "closed"}

\* what cloudinary.uploader.upload may return
UploadBodies == { [secure_url |-> "https://res.example/1.jpg"],
                  [secure_url |-> ""],
                  [public_id |-> "p1"] }

\* what the Graph API POSTs may return as JSON
PostBodies == { [id |-> "17900"],
                [id |-> "18000"],
                [error |-> [message |-> <<"quota">>]],
                [error |-> [code |-> "190"]],
                EmptyDict }

\* what the status GET may return as JSON
StatusBodies == { [status_code |-> "PENDING"],
                  [status_code |-> "PROCESSING"],
                  [status_code |-> "FINISHED"],
                  [status_code |-> "ERROR"],
                  [id |-> "17900"] }

\* range(5), instagram_poster.py line 62
MaxPolls == 5

\* largest image width and height tried
MaxDim == 4

\* width and height Image.open may report
Dims == 0..MaxDim

-----------------------------------------------------------------------------
(* Initial state: the arguments and the environment of one invocation *)

\* firebase_config.py before any call of initialize_firebase
FirebaseUntouched ==
  /\ fb_apps = 0
  /\ fb_files = {}
  /\ fb_valid = {}
  /\ fb_bucket = FALSE
  /\ fb_cred = None
  /\ fb_last = Unbound
  /\ fb_calls = 0

Init ==
  /\ impl \in {"poster", "generator"}
  /\ env \in SUBSET EnvVars
  /\ stdout \in Stdouts
  /\ stderr \in Stderrs
  /\ image_path \in Paths
  /\ \/ /\ caption_given = FALSE
        /\ caption_arg = << >>
        /\ caption = IF impl = "poster" THEN PosterDefaultCaption
                                        ELSE GeneratorDefaultCaption
     \/ /\ caption_given = TRUE
        /\ caption_arg \in Captions
        /\ caption = caption_arg
  /\ disk \in {EmptyDict} \cup
              (IF image_path = << >> THEN {} ELSE {image_path :> "original"})
  /\ pc = "start"
  /\ img_size = Unbound
  /\ crop_box = Unbound
  /\ resize_error = None
  /\ resized_image_path = Unbound
  /\ upload_result = Unbound
  /\ image_url = None
  /\ upload_data = Unbound
  /\ container_id = None
  /\ status = None
  /\ attempt = 0
  /\ publish_data = Unbound
  /\ calls = << >>
  /\ result = NoResult
  /\ FirebaseUntouched

\* os.path.exists(p)
Exists(p) == p \in DOMAIN disk

\* `return d`
Return(d) == /\ result' = d
             /\ pc' = "done"

\* an exception leaves the function: nothing is returned
Raise == /\ pc' = "raised"
         /\ UNCHANGED result

\* whether print(text) returns normally; emoji: the text has a character
\* that ascii and cp1252 cannot encode
PrintOk(emoji) == stdout = "utf-8" \/ (stdout = "ascii" /\ ~emoji)

\* what a failing print raises
PrintError ==
  IF stdout = "closed" THEN "ValueError: I/O operation on closed file"
                       ELSE "UnicodeEncodeError"

\* body.get("error", {}).get("message", str(body))
ErrorMsg(body) == Get(Get(body, "error", EmptyDict), "message", Str(body))

\* the failure dict of instagram_poster.py
PosterFail(msg) == [post_status |-> msg, success |-> FALSE]

\* the failure dict of image_generator.py
GeneratorFail(msg) == [post_status |-> msg]

\* the success dict of instagram_poster.py, lines 86-92
PosterSuccess(body) ==
  [post_status |-> <<"Successfully posted to Instagram!">>,
   success |-> TRUE,
   media_id |-> body["id"],
   caption |-> caption,
   image_url |-> image_url]

\* the success dict of image_generator.py, lines 137-142
GeneratorSuccess(body) ==
  [post_status |-> <<"Successfully posted to Instagram!">>,
   media_id |-> body["id"],
   caption |-> caption,
   image_url |-> image_url]

\* the credential test both implementations make
MissingInstagramCredentials ==
  \/ "INSTAGRAM_ACCESS_TOKEN" \notin env
  \/ "INSTAGRAM_BUSINESS_ACCOUNT_ID" \notin env

\* `not image_path or not os.path.exists(image_path)`
ImageMissing == image_path = << >> \/ ~Exists(image_path)

\* the caption after lines 31-32 of instagram_poster.py
DefaultedCaption(c) == IF Strip(c) = << >> THEN BlankCaptionReplacement ELSE c

Issue(call) == calls' = Append(calls, call)

\* whether traceback.print_exc() returns normally
PrintExcOk == stderr = "open"

\* instagram_poster.py lines 94-98: the except branch for exception e; its
\* own print (line 95, with an emoji) and traceback.print_exc() (line 97)
\* come before the return, and an exception from either leaves the function
PosterExcept(e) ==
  IF PrintOk(TRUE) /\ PrintExcOk
    THEN Return(PosterFail(<<"Exception: ", e>>))
    ELSE Raise

\* image_generator.py lines 144-146: the except branch for exception e; its
\* own print (line 145, no emoji) comes before the return
GeneratorExcept(e) ==
  IF PrintOk(FALSE) THEN Return(GeneratorFail(<<"Exception: ", e>>)) ELSE Raise

-----------------------------------------------------------------------------
(* instagram_poster.py: instagram_post_run *)

\* lines 22-32: credentials, file, caption default
PosterValidate ==
  /\ impl = "poster" /\ pc = "start"
  /\ IF MissingInstagramCredentials
       THEN /\ Return(PosterFail(<<"Missing Instagram API credentials.">>))
            /\ UNCHANGED caption
       ELSE IF ImageMissing
         THEN /\ Return(PosterFail(<<"Image file not found: ", image_path>>))
              /\ UNCHANGED caption
         ELSE /\ caption' = DefaultedCaption(caption)
              /\ pc' = "upload"
              /\ UNCHANGED result
  /\ UNCHANGED <<impl, env, stdout, stderr, image_path, caption_given, caption_arg, disk,
                 img_size, crop_box, resize_error, resized_image_path,
                 upload_result, image_url, upload_data, container_id, status,
                 attempt, publish_data, calls>>
  /\ UNCHANGED fbvars

\* lines 35-40: the first print of the try, then
\* cloudinary.uploader.upload(image_path)
PosterUpload ==
  /\ impl = "poster" /\ pc = "upload"
  /\ IF ~PrintOk(TRUE)
       THEN /\ PosterExcept(PrintError)
            /\ UNCHANGED <<calls, upload_result, image_url>>
       ELSE /\ Issue([op |-> "upload", path |-> image_path])
            /\ \/ /\ PosterExcept("upload")
                  /\ UNCHANGED <<upload_result, image_url>>
               \/ \E body \in UploadBodies :
                    /\ upload_result' = body
                    /\ image_url' = Get(body, "secure_url", None)
                    /\ IF Falsy(image_url')
                         THEN Return(PosterFail(<<"Cloudinary upload failed.">>))
                         ELSE pc' = "create" /\ UNCHANGED result
  /\ UNCHANGED <<impl, env, stdout, stderr, image_path, caption_given, caption_arg, caption,
                 disk, img_size, crop_box, resize_error, resized_image_path,
                 upload_data, container_id, status, attempt, publish_data>>
  /\ UNCHANGED fbvars

\* lines 46-56: POST /{account}/media
PosterCreateContainer ==
  /\ impl = "poster" /\ pc = "create"
  /\ Issue([op |-> "create", image_url |-> image_url, caption |-> caption])
  /\ \/ /\ PosterExcept("create")
        /\ UNCHANGED <<upload_data, container_id>>
     \/ \E body \in PostBodies :
          /\ upload_data' = body
          /\ IF "id" \notin DOMAIN body
               THEN /\ Return(PosterFail(<<"Container creation failed: ", ErrorMsg(body)>>))
                    /\ UNCHANGED container_id
               ELSE /\ container_id' = body["id"]
                    /\ pc' = "poll"
                    /\ UNCHANGED result
  /\ UNCHANGED <<impl, env, stdout, stderr, image_path, caption_given, caption_arg, caption,
                 disk, img_size, crop_box, resize_error, resized_image_path,
                 upload_result, image_url, status, attempt, publish_data>>
  /\ UNCHANGED fbvars

\* a loop body without the break on FINISHED
AfterStatusNoBreak(st) == "sleep"

\* where the loop body goes after reading status (lines 67-69)
AfterStatus(st) == IF st = "FINISHED" THEN "publish" ELSE "sleep"

\* a loop that runs one iteration too many
AfterSleepOneMore(n) == IF n <= MaxPolls THEN "poll" ELSE "publish"

\* a loop that gives up when the bound is exhausted instead of publishing
AfterSleepAbort(n) == IF n < MaxPolls THEN "poll" ELSE "done"

\* where the loop goes after the sleep that ends iteration n (line 62)
AfterSleep(n) == IF n < MaxPolls THEN "poll" ELSE "publish"

\* lines 63-68: one status GET of the poll loop
PosterStatusQuery ==
  /\ impl = "poster" /\ pc = "poll"
  /\ Issue([op |-> "status", id |-> container_id])
  /\ attempt' = attempt + 1
  /\ \/ /\ PosterExcept("status")
        /\ UNCHANGED status
     \/ \E body \in StatusBodies :
          /\ status' = Get(body, "status_code", "")
          /\ pc' = AfterStatus(status')
          /\ UNCHANGED result
  /\ UNCHANGED <<impl, env, stdout, stderr, image_path, caption_given, caption_arg, caption,
                 disk, img_size, crop_box, resize_error, resized_image_path,
                 upload_result, image_url, upload_data, container_id,
                 publish_data>>
  /\ UNCHANGED fbvars

\* line 69: time.sleep(2), then the next iteration or the end of the loop
PosterSleep ==
  /\ impl = "poster" /\ pc = "sleep"
  /\ Issue([op |-> "sleep", seconds |-> 2])
  /\ pc' = AfterSleep(attempt)
  /\ UNCHANGED <<impl, env, stdout, stderr, image_path, caption_given, caption_arg, caption,
                 disk, img_size, crop_box, resize_error, resized_image_path,
                 upload_result, image_url, upload_data, container_id, status,
                 attempt, publish_data, result>>
  /\ UNCHANGED fbvars

\* the dict returned for a publish response body (lines 81-92)
PosterPublishResult(body) ==
  IF "id" \notin DOMAIN body
    THEN PosterFail(<<"Publish failed: ", ErrorMsg(body)>>)
    ELSE PosterSuccess(body)

\* a publish step that posts media_publish a second time when the first
\* response carries no id
PosterPublishRetry ==
  /\ impl = "poster" /\ pc = "publish"
  /\ Issue([op |-> "publish", creation_id |-> container_id])
  /\ \/ /\ PosterExcept("publish")
        /\ UNCHANGED publish_data
     \/ \E body \in PostBodies :
          /\ publish_data' = body
          /\ IF "id" \notin DOMAIN body /\ publish_data = Unbound
               THEN UNCHANGED <<pc, result>>
               ELSE Return(PosterPublishResult(body))
  /\ UNCHANGED <<impl, env, stdout, stderr, image_path, caption_given, caption_arg, caption,
                 disk, img_size, crop_box, resize_error, resized_image_path,
                 upload_result, image_url, upload_data, container_id, status,
                 attempt>>
  /\ UNCHANGED fbvars

\* lines 76-92: POST /{account}/media_publish
PosterPublish ==
  /\ impl = "poster" /\ pc = "publish"
  /\ Issue([op |-> "publish", creation_id |-> container_id])
  /\ \/ /\ PosterExcept("publish")
        /\ UNCHANGED publish_data
     \/ \E body \in PostBodies :
          /\ publish_data' = body
          /\ Return(PosterPublishResult(body))
  /\ UNCHANGED <<impl, env, stdout, stderr, image_path, caption_given, caption_arg, caption,
                 disk, img_size, crop_box, resize_error, resized_image_path,
                 upload_result, image_url, upload_data, container_id, status,
                 attempt>>
  /\ UNCHANGED fbvars

-----------------------------------------------------------------------------
(* image_generator.py: instagram_post_run *)

\* lines 70-77: credentials, file
GeneratorValidate ==
  /\ impl = "generator" /\ pc = "start"
  /\ IF MissingInstagramCredentials
       THEN Return(GeneratorFail(<<"Missing Instagram API credentials.">>))
       ELSE IF ImageMissing
         THEN Return(GeneratorFail(<<"Image file not found: ", image_path>>))
         ELSE pc' = "resize" /\ UNCHANGED result
  /\ UNCHANGED <<impl, env, stdout, stderr, image_path, caption_given, caption_arg, caption,
                 disk, img_size, crop_box, resize_error, resized_image_path,
                 upload_result, image_url, upload_data, container_id, status,
                 attempt, publish_data, calls>>
  /\ UNCHANGED fbvars

Min(a, b) == IF a <= b THEN a ELSE b

\* a crop box that forgets to halve the margins
CropBoxNoHalving(width, height) ==
  LET min_dimension == Min(width, height)
      left == width - min_dimension
      top == height - min_dimension
  IN  <<left, top, left + min_dimension, top + min_dimension>>

\* lines 35-41 of resize_for_instagram: (left, top, right, bottom)
CropBox(width, height) ==
  LET min_dimension == Min(width, height)
      left == (width - min_dimension) \div 2
      top == (height - min_dimension) \div 2
  IN  <<left, top, left + min_dimension, top + min_dimension>>

\* an except branch that returns the derived path although nothing was saved
ResizeFallbackDerived(p) == ResizedPath(p)

\* lines 55-57 of resize_for_instagram: what the except branch returns
ResizeFallback(p) == p

\* lines 81-82 and 24-41: the first print of the try, then
\* resize_for_instagram up to the crop box
GeneratorResizeOpen ==
  /\ impl = "generator" /\ pc = "resize"
  /\ IF ~PrintOk(TRUE)
       THEN /\ GeneratorExcept(PrintError)
            /\ UNCHANGED <<calls, img_size, crop_box, resize_error,
                           resized_image_path>>
       ELSE /\ Issue([op |-> "resize", path |-> image_path])
            /\ UNCHANGED result
            /\ \/ /\ resize_error' = "open"
                  /\ resized_image_path' = ResizeFallback(image_path)
                  /\ pc' = "upload"
                  /\ UNCHANGED <<img_size, crop_box>>
               \/ \E width \in Dims, height \in Dims :
                    IF height = 0
                      THEN /\ resize_error' = "ZeroDivisionError"
                           /\ resized_image_path' = ResizeFallback(image_path)
                           /\ pc' = "upload"
                           /\ UNCHANGED <<img_size, crop_box>>
                      ELSE /\ img_size' = <<width, height>>
                           /\ crop_box' = CropBox(width, height)
                           /\ pc' = "resize_save"
                           /\ UNCHANGED <<resize_error, resized_image_path>>
  /\ UNCHANGED <<impl, env, stdout, stderr, image_path, caption_given, caption_arg, caption,
                 disk, upload_result, image_url, upload_data, container_id,
                 status, attempt, publish_data>>
  /\ UNCHANGED fbvars

\* lines 43-57: crop, resize, save to resized_path, return
GeneratorResizeSave ==
  /\ impl = "generator" /\ pc = "resize_save"
  /\ \/ /\ resized_image_path' = ResizedPath(image_path)
        /\ disk' = (resized_image_path' :> "derived") @@ disk
        /\ UNCHANGED resize_error
     \/ /\ resize_error' \in {"crop", "resize"}
        /\ resized_image_path' = ResizeFallback(image_path)
        /\ UNCHANGED disk
     \/ /\ resize_error' = "save"
        /\ resized_image_path' = ResizeFallback(image_path)
        /\ disk' \in {disk, (ResizedPath(image_path) :> "partial") @@ disk}
  /\ pc' = "upload"
  /\ img_size' = Unbound /\ crop_box' = Unbound
  /\ UNCHANGED <<impl, env, stdout, stderr, image_path, caption_given, caption_arg, caption,
                 upload_result, image_url, upload_data, container_id, status,
                 attempt, publish_data, calls, result>>
  /\ UNCHANGED fbvars

\* lines 85-89: cloudinary.uploader.upload(resized_image_path)
GeneratorUpload ==
  /\ impl = "generator" /\ pc = "upload"
  /\ Issue([op |-> "upload", path |-> resized_image_path])
  /\ \/ /\ GeneratorExcept("upload")
        /\ UNCHANGED <<upload_result, image_url>>
     \/ \E body \in UploadBodies :
          /\ upload_result' = body
          /\ image_url' = Get(body, "secure_url", None)
          /\ IF Falsy(image_url')
               THEN Return(GeneratorFail(<<"Cloudinary upload failed.">>))
               ELSE pc' = "create" /\ UNCHANGED result
  /\ UNCHANGED <<impl, env, stdout, stderr, image_path, caption_given, caption_arg, caption,
                 disk, img_size, crop_box, resize_error, resized_image_path,
                 upload_data, container_id, status, attempt, publish_data>>
  /\ UNCHANGED fbvars

\* lines 96-110: POST /{account}/media
GeneratorCreateContainer ==
  /\ impl = "generator" /\ pc = "create"
  /\ Issue([op |-> "create", image_url |-> image_url, caption |-> caption])
  /\ \/ /\ GeneratorExcept("create")
        /\ UNCHANGED <<upload_data, container_id>>
     \/ \E body \in PostBodies :
          /\ upload_data' = body
          /\ IF "id" \notin DOMAIN body
               THEN /\ Return(GeneratorFail(<<"Upload failed: ", ErrorMsg(body)>>))
                    /\ UNCHANGED container_id
               ELSE /\ container_id' = body["id"]
                    /\ pc' = "publish"
                    /\ UNCHANGED result
  /\ UNCHANGED <<impl, env, stdout, stderr, image_path, caption_given, caption_arg, caption,
                 disk, img_size, crop_box, resize_error, resized_image_path,
                 upload_result, image_url, status, attempt, publish_data>>
  /\ UNCHANGED fbvars

\* lines 114-127: POST /{account}/media_publish
GeneratorPublish ==
  /\ impl = "generator" /\ pc = "publish"
  /\ Issue([op |-> "publish", creation_id |-> container_id])
  /\ \/ /\ GeneratorExcept("publish")
        /\ UNCHANGED publish_data
     \/ \E body \in PostBodies :
          /\ publish_data' = body
          /\ IF "id" \notin DOMAIN body
               THEN Return(GeneratorFail(<<"Publish failed: ", ErrorMsg(body)>>))
               ELSE pc' = "cleanup" /\ UNCHANGED result
  /\ UNCHANGED <<impl, env, stdout, stderr, image_path, caption_given, caption_arg, caption,
                 disk, img_size, crop_box, resize_error, resized_image_path,
                 upload_result, image_url, upload_data, container_id, status,
                 attempt>>
  /\ UNCHANGED fbvars

\* the file system after os.remove(p)
Removed(p) == [q \in DOMAIN disk \ {p} |-> disk[q]]

\* a cleanup test without the comparison with image_path
ShouldCleanupAnyPath == Exists(resized_image_path)

\* line 130: whether the resized file is removed
ShouldCleanup == resized_image_path # image_path /\ Exists(resized_image_path)

\* lines 130-142: remove the resized file (errors swallowed), return success
GeneratorCleanup ==
  /\ impl = "generator" /\ pc = "cleanup"
  /\ IF ShouldCleanup
       THEN /\ Issue([op |-> "remove", path |-> resized_image_path])
            /\ \/ disk' = Removed(resized_image_path)
               \/ UNCHANGED disk
       ELSE UNCHANGED <<calls, disk>>
  /\ Return(GeneratorSuccess(publish_data))
  /\ UNCHANGED <<impl, env, stdout, stderr, image_path, caption_given, caption_arg, caption,
                 img_size, crop_box, resize_error, resized_image_path,
                 upload_result, image_url, upload_data, container_id, status,
                 attempt, publish_data>>
  /\ UNCHANGED fbvars

-----------------------------------------------------------------------------

Next ==
  \/ PosterValidate
  \/ PosterUpload
  \/ PosterCreateContainer
  \/ PosterStatusQuery
  \/ PosterSleep
  \/ PosterPublish
  \/ GeneratorValidate
  \/ GeneratorResizeOpen
  \/ GeneratorResizeSave
  \/ GeneratorUpload
  \/ GeneratorCreateContainer
  \/ GeneratorPublish
  \/ GeneratorCleanup

Spec == Init /\ [][Next]_vars

-----------------------------------------------------------------------------
(* firebase_config.py: initialize_firebase *)

\* the two places a service-account key is looked for (lines 12 and 15)
KeyPaths == {"render", "local"}

\* number of initialize_firebase calls followed
MaxCalls == 3

\* no instagram_post_run invocation is in progress
WorkflowIdle ==
  /\ impl = "poster"
  /\ env = {}
  /\ image_path = << >>
  /\ caption_given = FALSE
  /\ caption_arg = << >>
  /\ caption = PosterDefaultCaption
  /\ disk = EmptyDict
  /\ pc = "idle"
  /\ img_size = Unbound
  /\ crop_box = Unbound
  /\ resize_error = None
  /\ resized_image_path = Unbound
  /\ upload_result = Unbound
  /\ image_url = None
  /\ upload_data = Unbound
  /\ container_id = None
  /\ status = None
  /\ attempt = 0
  /\ publish_data = Unbound
  /\ calls = << >>
  /\ result = NoResult

FirebaseInit ==
  /\ WorkflowIdle
  /\ stdout \in Stdouts
  /\ stderr \in Stderrs
  /\ fb_apps = 0
  /\ fb_files \in SUBSET KeyPaths
  /\ fb_valid \in SUBSET fb_files
  /\ fb_bucket \in BOOLEAN
  /\ fb_cred = None
  /\ fb_last = Unbound
  /\ fb_calls = 0

\* a guard that never sees a registered app
AppRegisteredNever == FALSE

\* line 10: firebase_admin._apps is non-empty
AppRegistered == fb_apps > 0

\* lines 18-26: the key path picked, None when neither exists
ServiceAccountPath(files) ==
  IF "render" \in files THEN "render"
  ELSE IF "local" \in files THEN "local"
  ELSE None

\* what the call saw and how it ended
CallRecord(outcome) ==
  [apps_before |-> fb_apps, files |-> fb_files, valid |-> fb_valid,
   bucket |-> fb_bucket, outcome |-> outcome]

\* lines 9-41: one call of initialize_firebase; the prints of lines 40-41
\* (with emoji) come after initialize_app has registered the app
InitializeFirebase ==
  /\ pc = "idle" /\ fb_calls < MaxCalls
  /\ fb_calls' = fb_calls + 1
  /\ IF AppRegistered
       THEN /\ fb_last' = CallRecord("returned")
            /\ UNCHANGED <<fb_apps, fb_cred>>
       ELSE LET service_account_path == ServiceAccountPath(fb_files) IN
            IF service_account_path = None
              THEN /\ fb_last' = CallRecord("FileNotFoundError")
                   /\ UNCHANGED <<fb_apps, fb_cred>>
            ELSE IF service_account_path \notin fb_valid
              THEN /\ fb_last' = CallRecord("CertificateError")
                   /\ UNCHANGED <<fb_apps, fb_cred>>
            ELSE IF ~fb_bucket
              THEN /\ fb_last' = CallRecord("ValueError")
                   /\ UNCHANGED <<fb_apps, fb_cred>>
            ELSE /\ fb_apps' = fb_apps + 1
                 /\ fb_cred' = service_account_path
                 /\ fb_last' = CallRecord(IF PrintOk(TRUE) THEN "returned"
                                                          ELSE PrintError)
  /\ UNCHANGED <<fb_files, fb_valid, fb_bucket>>
  /\ UNCHANGED wfvars

\* between calls key files and the bucket setting may appear or disappear
FirebaseEnvChange ==
  /\ pc = "idle"
  /\ fb_files' \in SUBSET KeyPaths
  /\ fb_valid' \in SUBSET fb_files'
  /\ fb_bucket' \in BOOLEAN
  /\ <<fb_files', fb_valid', fb_bucket'>> # <<fb_files, fb_valid, fb_bucket>>
  /\ UNCHANGED <<fb_apps, fb_cred, fb_last, fb_calls>>
  /\ UNCHANGED wfvars

FirebaseNext == InitializeFirebase \/ FirebaseEnvChange

FirebaseSpec == FirebaseInit /\ [][FirebaseNext]_vars

\* the invocation is sequential code: while a step is left to run it runs
\* (every external call is assumed to return or raise)
FairSpec == Spec /\ WF_vars(Next)

-----------------------------------------------------------------------------
(* Vocabulary of the properties *)

\* the function has returned a dict
Done == pc = "done"

\* an exception has left the function
Raised == pc = "raised"

NetworkOps == {"upload", "create", "status", "publish"}

\* how many calls of kind op have been issued
Count(op) == Cardinality({i \in DOMAIN calls : calls[i].op = op})

NetworkCalls == Cardinality({i \in DOMAIN calls : calls[i].op \in NetworkOps})

IsSuccessRecord(r) == r.post_status = <<"Successfully posted to Instagram!">>

\* a failure result: success = false
IsFailure(r) == "success" \in DOMAIN r /\ r.success = FALSE

\* all MaxPolls status queries returned, none of them FINISHED (the sleep
\* that follows the last response is pending or done)
PollsExhausted ==
  /\ impl = "poster"
  /\ attempt = MaxPolls
  /\ status # "FINISHED"
  /\ (pc = "sleep" \/ Count("sleep") = MaxPolls)

-----------------------------------------------------------------------------
(* Properties *)

\* C1: no invocation lets an exception reach its caller; every invocation
\* returns a dict, and every returned dict that is not the success record
\* carries success = FALSE.
C1_AlwaysReturnsFlaggedResult ==
  /\ ~Raised
  /\ Done => /\ result # NoResult
             /\ ~IsSuccessRecord(result) => IsFailure(result)

\* C2: when any of the five required settings is absent, no network call is
\* ever issued and the result is the failure 'Missing ... credentials.'.
C2_MissingCredentialNoNetwork ==
  (EnvVars \ env # {}) =>
     /\ NetworkCalls = 0
     /\ Done => /\ IsFailure(result)
                /\ result.post_status = <<"Missing Instagram API credentials.">>

\* C3: every publish call is preceded, in the same invocation, by at least
\* one status query for the container it publishes.
C3_NoPublishWithoutStatusQuery ==
  \A i \in DOMAIN calls :
    calls[i].op = "publish" =>
      \E j \in 1..(i - 1) :
        calls[j].op = "status" /\ calls[j].id = calls[i].creation_id

\* C4: when none of the 5 status responses is FINISHED the workflow goes on
\* to publish, issues the publish call exactly once, and returns what the
\* response of that call alone decides: success with its id, 'Publish
\* failed' without an id.  Only a publish call that itself raises ends
\* otherwise: in the exception record, or in an exception when the except
\* branch fails too.
C4_TimeoutStillPublishes ==
  PollsExhausted =>
     /\ pc \in {"sleep", "publish", "done", "raised"}
     /\ (Done \/ Raised) =>
          /\ Count("publish") = 1
          /\ Count("status") = MaxPolls
     /\ Raised => publish_data = Unbound
     /\ Done =>
          IF publish_data = Unbound
            THEN result = PosterFail(<<"Exception: ", "publish">>)
            ELSE IF "id" \in DOMAIN publish_data
              THEN /\ result.success = TRUE
                   /\ result.media_id = publish_data["id"]
              ELSE /\ result.success = FALSE
                   /\ Head(result.post_status) = "Publish failed: "

\* C4 witness: five non-FINISHED polls ending in ERROR, then a publish
\* that succeeded.
C4_Witness ==
  /\ PollsExhausted /\ Done
  /\ status = "ERROR"
  /\ Count("status") = MaxPolls
  /\ "media_id" \in DOMAIN result

\* C5: once the workflow has returned, a derived file created at a path
\* distinct from the original is gone (or its removal was attempted and
\* the error swallowed).
C5_DerivedFileGoneAtEnd ==
  (Done /\ resized_image_path # Unbound /\ resized_image_path # image_path) =>
     \/ ~Exists(resized_image_path)
     \/ Count("remove") = 1

\* C6: in every returned dict success = TRUE exactly when media_id is
\* present.
C6_SuccessIffMediaId ==
  Done => (("success" \in DOMAIN result /\ result.success = TRUE)
             <=> "media_id" \in DOMAIN result)

\* C7: the upload, the container-creation POST and the publish POST are
\* each issued at most once per invocation.
C7_NoMutatingRetry ==
  \A op \in {"upload", "create", "publish"} : Count(op) <= 1

\* C7 witness: an invocation that repeated the status query and still
\* issued each mutating call once.
C7_Witness ==
  /\ Done
  /\ Count("status") > 1
  /\ Count("upload") = 1 /\ Count("create") = 1 /\ Count("publish") = 1

\* C8: an upload response with no or empty secure_url ends the invocation
\* with the failure 'Cloudinary upload failed.' and no later remote call.
C8_UploadWithoutUrlFails ==
  (upload_result # Unbound /\ Falsy(Get(upload_result, "secure_url", None))) =>
     /\ Done
     /\ IsFailure(result)
     /\ result.post_status = <<"Cloudinary upload failed.">>
     /\ Count("create") = 0 /\ Count("status") = 0 /\ Count("publish") = 0

\* C9: with credentials present, an empty image_path or one naming no file
\* ends the invocation with a failure (success = FALSE) naming the path,
\* with no network call and no normalization.
C9_MissingImageFailsFast ==
  (~MissingInstagramCredentials /\ ImageMissing /\ pc # "start") =>
     /\ Done
     /\ IsFailure(result)
     /\ result.post_status = <<"Image file not found: ", image_path>>
     /\ calls = << >>

\* C10: a blank or omitted caption is replaced by the one fixed default
\* string, so the caption sent at container creation and the caption echoed
\* in the result are never blank.
C10_BlankCaptionDefaulted ==
  LET blankIn == ~caption_given \/ Strip(caption_arg) = << >>
      Good(c) == /\ Strip(c) # << >>
                 /\ blankIn => c = BlankCaptionReplacement
  IN /\ \A i \in DOMAIN calls : calls[i].op = "create" => Good(calls[i].caption)
     /\ (Done /\ "caption" \in DOMAIN result) => Good(result.caption)

\* C11: when upload, container creation and publish all succeed the result
\* has success = TRUE, the id of the publish response (not the container
\* id), the secure_url of the upload and the caption sent at container
\* creation.
C11_SuccessRecordFields ==
  (/\ Done
   /\ upload_result # Unbound /\ ~Falsy(Get(upload_result, "secure_url", None))
   /\ upload_data # Unbound /\ "id" \in DOMAIN upload_data
   /\ publish_data # Unbound /\ "id" \in DOMAIN publish_data) =>
     /\ "success" \in DOMAIN result /\ result.success = TRUE
     /\ result.media_id = publish_data["id"]
     /\ result.image_url = upload_result["secure_url"]
     /\ \E i \in DOMAIN calls :
          calls[i].op = "create" /\ calls[i].caption = result.caption

\* resize_for_instagram has returned
ResizeReturned ==
  impl = "generator" /\ resized_image_path # Unbound

\* C12: when a step of resize_for_instagram fails it returns image_path
\* itself, nothing is raised, and the workflow goes on to upload the
\* original file.
C12_ResizeFailureFallsBack ==
  (impl = "generator" /\ resize_error # None) =>
     /\ resized_image_path = image_path
     /\ \/ pc = "upload" /\ result = NoResult
        \/ /\ Len(calls) >= 2
           /\ calls[2] = [op |-> "upload", path |-> image_path]

\* C12 witness: the save failed and the original file was uploaded.
C12_Witness ==
  /\ impl = "generator"
  /\ resize_error = "save"
  /\ Count("upload") = 1
  /\ image_url # None

\* C13: for W > 0 and H > 0 the crop box is the centred m x m square,
\* m = min(W, H): it lies inside the image, opposite margins differ by at
\* most one pixel, and it is the whole frame when W = H.
C13_CropBoxCentredSquare ==
  (crop_box # Unbound /\ img_size[1] > 0 /\ img_size[2] > 0) =>
     LET W == img_size[1]
         H == img_size[2]
         m == IF W <= H THEN W ELSE H
         left == crop_box[1]
         top == crop_box[2]
         right == crop_box[3]
         bottom == crop_box[4]
     IN  /\ right - left = m /\ bottom - top = m
         /\ 2 * left <= W - m /\ W - m <= 2 * left + 1
         /\ 2 * top <= H - m /\ H - m <= 2 * top + 1
         /\ 0 <= left /\ right <= W
         /\ 0 <= top /\ bottom <= H
         /\ (W - right) - left \in {0, 1}
         /\ (H - bottom) - top \in {0, 1}
         /\ W = H => (left = 0 /\ top = 0 /\ right = W /\ bottom = H)

\* C13 witness: a landscape image with an odd surplus width.
C13_Witness ==
  /\ crop_box # Unbound
  /\ img_size = <<4, 1>>
  /\ crop_box = <<1, 0, 2, 1>>

\* C16: when normalization succeeds the derived image is at a path other
\* than image_path and the original file is untouched.
C16_DerivedPathDistinct ==
  (ResizeReturned /\ resize_error = None) =>
     /\ resized_image_path # image_path
     /\ disk[image_path] = "original"

\* C19: the only file ever removed is the path resize_for_instagram
\* returned, and only when it differs from image_path; the original file
\* exists throughout the invocation.
C19_CleanupSparesOriginal ==
  /\ \A i \in DOMAIN calls :
       calls[i].op = "remove" =>
         /\ calls[i].path = resized_image_path
         /\ calls[i].path # image_path
  /\ (impl = "generator" /\ pc \notin {"start", "done"}) => Exists(image_path)
  /\ (impl = "generator" /\ Done /\ calls # << >>) => Exists(image_path)

\* C19 witness: a successful post whose resize produced image_path itself,
\* so nothing was removed and the file is still there.
C19_Witness ==
  /\ impl = "generator" /\ Done
  /\ "media_id" \in DOMAIN result
  /\ resize_error = None
  /\ resized_image_path = image_path
  /\ Exists(image_path)

\* the poll loop has been left without an exception
LoopExited == impl = "poster" /\ (pc = "publish" \/ Count("publish") >= 1)

\* C14: at most 5 status queries are issued, none after a FINISHED
\* response, and the loop ends on the first FINISHED response or after
\* exactly 5 queries.
C14_PollStopsAtFinishedOrFive ==
  /\ [](Count("status") <= MaxPolls)
  /\ [][status = "FINISHED" => Count("status")' = Count("status")]_vars
  /\ [](LoopExited => (status = "FINISHED" \/ Count("status") = MaxPolls))

\* C14 witness: the third status response was FINISHED and the post went
\* through after three queries.
C14_Witness ==
  /\ Done /\ impl = "poster"
  /\ status = "FINISHED"
  /\ Count("status") = 3
  /\ "media_id" \in DOMAIN result

\* position of a remote call in the pipeline
Rank(op) == CASE op = "upload" -> 1
              [] op = "create" -> 2
              [] op = "status" -> 3
              [] op = "publish" -> 4
              [] OTHER -> 0

\* C15: remote calls go upload, container creation, status queries,
\* publish; each carries the identifier the previous stage returned; a
\* container response without an id ends in a failure result with no
\* status query and no publish.
C15_PipelineOrderAndDataFlow ==
  /\ \A i, j \in DOMAIN calls :
       (i < j /\ Rank(calls[i].op) > 0 /\ Rank(calls[j].op) > 0) =>
          Rank(calls[i].op) <= Rank(calls[j].op)
  /\ \A i \in DOMAIN calls :
       /\ calls[i].op = "create" =>
            /\ upload_result # Unbound
            /\ "secure_url" \in DOMAIN upload_result
            /\ calls[i].image_url = upload_result["secure_url"]
       /\ calls[i].op \in {"status", "publish"} =>
            /\ upload_data # Unbound
            /\ "id" \in DOMAIN upload_data
       /\ calls[i].op = "status" => calls[i].id = upload_data["id"]
       /\ calls[i].op = "publish" => calls[i].creation_id = upload_data["id"]
  /\ (upload_data # Unbound /\ "id" \notin DOMAIN upload_data) =>
       /\ Done
       /\ IsFailure(result)
       /\ Count("status") = 0 /\ Count("publish") = 0

\* C17: every invocation terminates with exactly one result: the poll loop
\* is bounded, the function ends by a return and never by an exception, a
\* dict is returned exactly when it ends and is never replaced.
C17_TerminatesWithOneResult ==
  /\ [](attempt <= MaxPolls)
  /\ [](~Raised)
  /\ [](Done <=> result # NoResult)
  /\ [][result # NoResult => result' = result]_vars
  /\ <>Done

\* C18 as claimed: k status queries come with exactly k-1 sleeps, and no
\* sleep separates the last status query from the publish call.
C18_SleepOnlyBetweenQueries ==
  /\ \A i \in DOMAIN calls :
       calls[i].op = "sleep" =>
         /\ i > 1 /\ calls[i - 1].op = "status"
         /\ i < Len(calls) => calls[i + 1].op = "status"
  /\ LoopExited => Count("sleep") = Count("status") - 1

\* C18 amended: a sleep follows every status response that is not FINISHED,
\* the fifth included, and nothing else: k-1 sleeps when the k-th query
\* returned FINISHED, 5 sleeps when none of the 5 did, the last of them
\* between the fifth query and the publish call.
C18_SleepAfterEachUnfinishedPoll ==
  /\ \A i \in DOMAIN calls :
       calls[i].op = "sleep" =>
         /\ i > 1 /\ calls[i - 1].op = "status"
         /\ i < Len(calls) =>
              \/ calls[i + 1].op = "status"
              \/ calls[i + 1].op = "publish" /\ Count("status") = MaxPolls
  /\ status = "FINISHED" => Count("sleep") = Count("status") - 1
  /\ (LoopExited /\ status # "FINISHED") =>
       (Count("sleep") = MaxPolls /\ Count("status") = MaxPolls)

\* C18 witness: five unfinished polls, five sleeps, then the publish call.
C18_Witness ==
  /\ LoopExited /\ Done
  /\ status # "FINISHED"
  /\ Count("sleep") = MaxPolls
  /\ calls[Len(calls) - 1].op = "sleep"
  /\ calls[Len(calls)].op = "publish"

\* the step is a call of initialize_firebase
FirebaseCall == fb_calls' = fb_calls + 1

\* C20 as claimed: at most one registration; a call with an app registered
\* changes nothing and returns; with none registered it raises
\* FileNotFoundError when neither key path exists, otherwise ValueError
\* when the bucket is unset, leaving no app; the Render path wins when both
\* exist.
C20_InitializeOnceAsClaimed ==
  /\ fb_apps <= 1
  /\ fb_last # Unbound =>
       /\ fb_last.apps_before > 0 => fb_last.outcome = "returned"
       /\ (fb_last.apps_before = 0 /\ fb_last.files = {}) =>
            (fb_last.outcome = "FileNotFoundError" /\ fb_apps = 0)
       /\ (fb_last.apps_before = 0 /\ fb_last.files # {} /\ ~fb_last.bucket) =>
            (fb_last.outcome = "ValueError" /\ fb_apps = 0)
  /\ (fb_apps = 1 /\ fb_last # Unbound /\ fb_last.apps_before = 0) =>
       fb_cred = (IF "render" \in fb_last.files THEN "render" ELSE "local")

\* C20 amended: as claimed, except that credentials.Certificate reads the
\* chosen key file before the bucket is looked at: when it rejects the file
\* its exception propagates, whatever the bucket setting, and no app is
\* registered; ValueError for the unset bucket is raised only once the key
\* file was accepted.  With key file and bucket good the app is registered
\* from the chosen key; the call then returns, or raises the error of its
\* closing prints when standard output rejects them, the app staying
\* registered.
C20_InitializeOnce ==
  /\ [](fb_apps <= 1)
  /\ [][(FirebaseCall /\ fb_apps > 0) => UNCHANGED <<fb_apps, fb_cred>>]_vars
  /\ [][(FirebaseCall /\ fb_last'.outcome \in
            {"FileNotFoundError", "CertificateError", "ValueError"})
          => fb_apps' = 0]_vars
  /\ [](fb_last # Unbound =>
         LET chosen == IF "render" \in fb_last.files THEN "render" ELSE "local" IN
         /\ fb_last.apps_before > 0 => fb_last.outcome = "returned"
         /\ (fb_last.apps_before = 0 /\ fb_last.files = {}) =>
              fb_last.outcome = "FileNotFoundError"
         /\ (fb_last.apps_before = 0 /\ fb_last.files # {}
               /\ chosen \notin fb_last.valid) =>
              fb_last.outcome = "CertificateError"
         /\ (fb_last.apps_before = 0 /\ fb_last.files # {}
               /\ chosen \in fb_last.valid /\ ~fb_last.bucket) =>
              fb_last.outcome = "ValueError"
         /\ (fb_last.apps_before = 0 /\ fb_last.files # {}
               /\ chosen \in fb_last.valid /\ fb_last.bucket) =>
              /\ fb_apps = 1 /\ fb_cred = chosen
              /\ fb_last.outcome =
                   (IF stdout = "utf-8" THEN "returned" ELSE PrintError))

\* C20 witness: an app is registered from the Render key, and the last
\* call, made with the app registered and with key files and bucket gone,
\* returned without raising.
C20_Witness ==
  /\ fb_apps = 1 /\ fb_cred = "render"
  /\ fb_calls = MaxCalls
  /\ fb_last # Unbound
  /\ fb_last.apps_before = 1
  /\ fb_last.files = {} /\ ~fb_last.bucket
  /\ fb_last.outcome = "returned"

====
